---- MODULE Spec2Model ----
(***************************************************************************)
(* iRacing endurance stint planner (streamlit_app.py).                     *)
(*                                                                         *)
(* One MongoDB record ("main_database") holds the whole multi-team         *)
(* document.  Every browser session keeps its own snapshot of it in        *)
(* st.session_state.db and runs the script top to bottom on every          *)
(* interaction.  The model has one action per handler of the script; a     *)
(* handler that does two database round trips is two steps, so that the    *)
(* other sessions can act between them.                                    *)
(***************************************************************************)
EXTENDS Integers, Sequences, FiniteSets, TLC

VARIABLES
    store,    \* the stored record: [found, data]; found = FALSE: no record yet
    loaded,   \* loaded[s]: 'db' in st.session_state
    db,       \* db[s]: st.session_state.db, the session's snapshot
    sel,      \* sel[s]: st.session_state.selected_team (NoTeam for None)
    pc,       \* pc[s]: where the session's running handler stands
    fresh,    \* fresh[s]: latest_db_data as load_data returned it
    pending,  \* pending[s]: the document the running handler is about to save
    newly,    \* newly[s]: st.session_state.newly_created_team
    error,    \* error[s]: the st.error / exception the last run displayed
    left,     \* interactions (clicks, input changes) still to be explored
    lost,     \* history: some save wrote back a slot value that another
              \* session had replaced in the store after the saver loaded
    resumen   \* resumen[s]: the selections and the pilot table on screen, and
              \* the summary and alerts displayed for them, in the session's
              \* last run in which no button was pressed

vars == <<store, loaded, db, sel, pc, fresh, pending, newly, error, left, lost, resumen>>

----------------------------------------------------------------------------
(* Bounds of the model *)

MaxOpsFromEmpty == 2  \* interactions explored from the empty collection
MaxMixedOps == 1      \* interactions explored from the two-team state, any kind
MaxTeamOps == 3       \* create/delete/start-hour interactions explored alone
MaxPlanOps == 2       \* availability/schedule saves explored alone
MaxFactoryOps == 2    \* team creations explored with every allowed duration
MaxSummaryOps == 1    \* changes of the selections and limits on screen explored
MaxDeletedTeamOps == 2  \* deletes and saves explored from the two-team state
MaxReconcileOps == 1  \* availability saves explored from an arbitrary schedule

Sessions == {"s1", "s2"}
NewTeamNames == {"A", "B"}
Comments == {"", "box"}
StartHourChoices == {14, 23}
DurationChoices == {3, 4}    \* the durations a user picks for a new team
LimitChoices == {1, 2}       \* the limits a user enters for a pilot (0 is the default)
EditRows == {1, 2}           \* the rows of the pilot table a user edits
MidHours == {1}              \* the middle hour indices a user edits or assigns

----------------------------------------------------------------------------
(* Program constants *)

SinAsignar == "Sin Asignar"
DefaultTeamName == "Equipo por Defecto"
DefaultDuration == 24
DefaultStartHour == 14
AllowedDurations == {24, 12, 10, 8, 6, 4, 3}
NoTeam == ""
\* nothing displayed yet
NoSummary == [asignaciones |-> << >>, edited |-> << >>, counts |-> << >>, alerts |-> {}]
EmptyDoc == [t \in {} |-> 0]

Min(a, b) == IF a < b THEN a ELSE b

----------------------------------------------------------------------------
(* get_default_team_structure *)

DefaultPilot(name, empezar, terminar, duration) ==
    [Piloto |-> name, QuiereEmpezar |-> empezar, QuiereTerminar |-> terminar,
     HorasLimite |-> 0, Horas |-> [h \in 0..(duration - 1) |-> TRUE]]

\* a factory in which two pilots want to start
get_default_team_structure_two_starters(duration) ==
    [race_config |-> [start_hour |-> DefaultStartHour, duration |-> duration],
     pilots |-> << DefaultPilot("Piloto 1", TRUE, FALSE, duration),
                   DefaultPilot("Piloto 2", TRUE, FALSE, duration),
                   DefaultPilot("Piloto 3", FALSE, TRUE, duration),
                   DefaultPilot("Piloto 4", FALSE, FALSE, duration) >>,
     horario |-> [i \in 1..duration |->
                     [PilotoAlVolante |-> SinAsignar, Comentarios |-> ""]]]

get_default_team_structure(duration) ==
    [race_config |-> [start_hour |-> DefaultStartHour, duration |-> duration],
     pilots |-> << DefaultPilot("Piloto 1", FALSE, FALSE, duration),
                   DefaultPilot("Piloto 2", TRUE, FALSE, duration),
                   DefaultPilot("Piloto 3", FALSE, TRUE, duration),
                   DefaultPilot("Piloto 4", FALSE, FALSE, duration) >>,
     horario |-> [i \in 1..duration |->
                     [PilotoAlVolante |-> SinAsignar, Comentarios |-> ""]]]

----------------------------------------------------------------------------
(* load_data / save_data *)

\* the document load_data returns
load_data(st) ==
    IF st.found THEN st.data
    ELSE (DefaultTeamName :> get_default_team_structure(DefaultDuration))

\* the stored record after load_data ran (insert_one on an empty collection)
load_data_store(st) ==
    IF st.found THEN st ELSE [found |-> TRUE, data |-> load_data(st)]

\* the teams already stored are kept as they are: only new teams are added
save_data_insert_only(st, data) ==
    [found |-> TRUE,
     data |-> [t \in (DOMAIN st.data) \cup (DOMAIN data) |->
                  IF t \in DOMAIN st.data THEN st.data[t] ELSE data[t]]]

\* update_one({"_id": ...}, {"$set": {"data": data}}, upsert=True)
save_data(st, data) == [found |-> TRUE, data |-> data]

\* a dict with key k set to v (insertion or replacement)
DictSet(d, k, v) == [x \in (DOMAIN d) \cup {k} |-> IF x = k THEN v ELSE d[x]]

\* del d[k]
DictDel(d, k) == [x \in (DOMAIN d) \ {k} |-> d[x]]

----------------------------------------------------------------------------
(* The pilot table as the data editor shows it.  A column str(h) is the     *)
(* key h; the label "HH:00" it is renamed to is the key 100 + HH.           *)

\* dynamic_hour_labels[h]
HourLabel(start_hour, h) == 100 + ((start_hour + h) % 24)

\* column_map = {str(h): dynamic_hour_labels[h] for h in range(race_duration)}
column_map(start_hour, duration) ==
    [h \in 0..(duration - 1) |-> HourLabel(start_hour, h)]

\* reverse_column_map = {v: k for k, v in column_map.items()}: the last key wins
reverse_column_map(start_hour, duration) ==
    LET cm == column_map(start_hour, duration)
    IN  [l \in {cm[h] : h \in DOMAIN cm} |->
            CHOOSE h \in DOMAIN cm :
                cm[h] = l /\ \A g \in DOMAIN cm : cm[g] = l => g <= h]

\* DataFrame.rename(columns=map) on the hour columns of one row
RenameColumns(horas, map) ==
    LET ren(k) == IF k \in DOMAIN map THEN map[k] ELSE k
    IN  [c \in {ren(k) : k \in DOMAIN horas} |->
            horas[CHOOSE k \in DOMAIN horas : ren(k) = c]]

RenameTable(tbl, map) ==
    [r \in 1..Len(tbl) |-> [tbl[r] EXCEPT !.Horas = RenameColumns(@, map)]]

\* display_config_df
display_config_df(team) ==
    RenameTable(team.pilots,
                column_map(team.race_config.start_hour, team.race_config.duration))

\* df_to_save
df_to_save(edited, team) ==
    RenameTable(edited,
                reverse_column_map(team.race_config.start_hour,
                                   team.race_config.duration))

RemoveRow(tbl, r) ==
    [k \in 1..(Len(tbl) - 1) |-> IF k < r THEN tbl[k] ELSE tbl[k + 1]]

\* the hour indices the user works on
UserSlots(duration) ==
    {0, duration - 1} \cup (MidHours \cap (1..(duration - 2)))

\* what st.data_editor can return: the table shown, or the table with one
\* checkbox toggled or one row deleted
data_editor(shown, start_hour, duration) ==
    LET rows == EditRows \cap (1..Len(shown))
        labels == {HourLabel(start_hour, h) : h \in MidHours \cap (1..(duration - 2))}
    IN  {shown}
        \cup {[shown EXCEPT ![r].QuiereEmpezar = ~@] : r \in rows}
        \cup {[shown EXCEPT ![r].QuiereTerminar = ~@] : r \in rows}
        \cup {[shown EXCEPT ![r].Horas[l] = ~@] :
                 r \in {q \in rows : \A l \in labels : l \in DOMAIN shown[q].Horas},
                 l \in labels}
        \cup {RemoveRow(shown, r) : r \in rows}

----------------------------------------------------------------------------
(* Availability *)

HasRow(tbl, name) == \E r \in 1..Len(tbl) : tbl[r].Piloto = name

\* df[df['Piloto'] == name].iloc[0]
FirstRow(tbl, name) ==
    tbl[CHOOSE r \in 1..Len(tbl) :
            tbl[r].Piloto = name /\ \A q \in 1..(r - 1) : tbl[q].Piloto # name]

\* tbl[mask]['Piloto'].tolist() from row r on: the names of the rows whose
\* mask is True, in table order
RECURSIVE FilterNames(_, _, _)
FilterNames(tbl, mask, r) ==
    IF r > Len(tbl) THEN << >>
    ELSE IF mask[r] THEN << tbl[r].Piloto >> \o FilterNames(tbl, mask, r + 1)
    ELSE FilterNames(tbl, mask, r + 1)

\* the start flag decides every hour index
pilotos_disponibles_starters(edited, i, start_hour, duration) ==
    FilterNames(edited, [r \in 1..Len(edited) |-> edited[r].QuiereEmpezar = TRUE], 1)

\* pilotos_disponibles for hour index i, from the edited table
pilotos_disponibles(edited, i, start_hour, duration) ==
    LET rows == 1..Len(edited)
        empezar == [r \in rows |-> edited[r].QuiereEmpezar = TRUE]
        terminar == [r \in rows |-> edited[r].QuiereTerminar = TRUE]
        hora_label == HourLabel(start_hour, i)
        hora == [r \in rows |-> /\ hora_label \in DOMAIN edited[r].Horas
                                /\ edited[r].Horas[hora_label] = TRUE]
    IN  IF i = 0 THEN FilterNames(edited, empezar, 1)
        ELSE IF i = duration - 1 THEN FilterNames(edited, terminar, 1)
        ELSE FilterNames(edited, hora, 1)

\* lista_pilotos_filtrada
lista_pilotos_filtrada(edited, i, start_hour, duration) ==
    << SinAsignar >> \o pilotos_disponibles(edited, i, start_hour, duration)

InList(list, x) == \E k \in 1..Len(list) : list[k] = x

\* the selectbox keeps the stored pilot, offered or not
default_seleccion_keeps(edited, i, team) == team.horario[i + 1].PilotoAlVolante

\* the selectbox's value when the user leaves it alone: options[default_index]
default_seleccion(edited, i, team) ==
    LET lista == lista_pilotos_filtrada(edited, i, team.race_config.start_hour,
                                        team.race_config.duration)
        piloto_actual == team.horario[i + 1].PilotoAlVolante
    IN  IF InList(lista, piloto_actual) THEN piloto_actual ELSE lista[1]

\* the hourly column decides every index: the start and finish flags are ignored
disponible_hourly_only(row, i, duration) == row.Horas[i]

\* disponible, from the row of the pilot in df_to_save
disponible(row, i, duration) ==
    IF i = 0 THEN row.QuiereEmpezar
    ELSE IF i = duration - 1 THEN row.QuiereTerminar
    ELSE row.Horas[i]

----------------------------------------------------------------------------
(* The reconcile loop of "Guardar Configuracion de Pilotos" *)

\* a slot whose pilot has no row is cleared too
ReconcileSlot_clears_orphans(df, entry, i, duration) ==
    IF entry.PilotoAlVolante # SinAsignar
       /\ (~HasRow(df, entry.PilotoAlVolante)
           \/ ~disponible(FirstRow(df, entry.PilotoAlVolante), i, duration))
    THEN [entry EXCEPT !.PilotoAlVolante = SinAsignar]
    ELSE entry

\* an unavailable pilot is replaced by the pilot of the next row
ReconcileSlot_next_pilot(df, entry, i, duration) ==
    IF entry.PilotoAlVolante # SinAsignar
       /\ HasRow(df, entry.PilotoAlVolante)
       /\ ~disponible(FirstRow(df, entry.PilotoAlVolante), i, duration)
    THEN LET r == CHOOSE q \in 1..Len(df) : df[q] = FirstRow(df, entry.PilotoAlVolante)
         IN  [entry EXCEPT !.PilotoAlVolante = df[(r % Len(df)) + 1].Piloto]
    ELSE entry

\* every assigned slot is cleared, valid or not
ReconcileSlot_clears_assigned(df, entry, i, duration) ==
    [entry EXCEPT !.PilotoAlVolante = SinAsignar]

ReconcileSlot(df, entry, i, duration) ==
    IF entry.PilotoAlVolante # SinAsignar
       /\ HasRow(df, entry.PilotoAlVolante)
       /\ ~disponible(FirstRow(df, entry.PilotoAlVolante), i, duration)
    THEN [entry EXCEPT !.PilotoAlVolante = SinAsignar]
    ELSE entry

\* the schedule is rebuilt from range(race_duration)
Reconcile_rebuilds(df, latest_horario, duration) ==
    [k \in 1..duration |-> ReconcileSlot(df, latest_horario[k], k - 1, duration)]

Reconcile(df, latest_horario, duration) ==
    [k \in 1..Len(latest_horario) |->
        IF k <= duration
        THEN ReconcileSlot(df, latest_horario[k], k - 1, duration)
        ELSE latest_horario[k]]

\* the loop raises: IndexError on latest_horario[i], KeyError on the column str(i)
ReconcileRaises(df, latest_horario, duration) ==
    \/ duration > Len(latest_horario)
    \/ \E i \in 1..(duration - 2) :
          LET p == latest_horario[i + 1].PilotoAlVolante
          IN  /\ p # SinAsignar
              /\ HasRow(df, p)
              /\ i \notin DOMAIN FirstRow(df, p).Horas

----------------------------------------------------------------------------
(* The merge loop of "Guardar Horario Asignado" *)

\* every slot is written as selected, changed or not
MergeSlot_overwrites(entry, shown, seleccion, comentario) ==
    [PilotoAlVolante |-> seleccion, Comentarios |-> comentario]

MergeSlot(entry, shown, seleccion, comentario) ==
    [PilotoAlVolante |-> IF seleccion # shown.PilotoAlVolante
                         THEN seleccion ELSE entry.PilotoAlVolante,
     Comentarios |-> IF comentario # shown.Comentarios
                     THEN comentario ELSE entry.Comentarios]

\* horario_a_guardar after the loop; horario_df is the schedule displayed
MergeHorario(horario_a_guardar, horario_df, asignaciones, comentarios, duration) ==
    [k \in 1..Len(horario_a_guardar) |->
        IF k <= duration
        THEN MergeSlot(horario_a_guardar[k], horario_df[k],
                       asignaciones[k], comentarios[k])
        ELSE horario_a_guardar[k]]

\* IndexError on horario_a_guardar[i] for a changed slot beyond its end
MergeRaises(horario_a_guardar, horario_df, asignaciones, comentarios, duration) ==
    \E k \in (Len(horario_a_guardar) + 1)..duration :
        \/ asignaciones[k] # horario_df[k].PilotoAlVolante
        \/ comentarios[k] # horario_df[k].Comentarios

----------------------------------------------------------------------------
(* What the user enters in the assignment column *)

\* the options of the selectbox of slot i the user picks among
UserPicks(edited, i, team) ==
    LET lista == lista_pilotos_filtrada(edited, i, team.race_config.start_hour,
                                        team.race_config.duration)
    IN  {lista[k] : k \in 1..Min(Len(lista), 1 + Cardinality(EditRows))}

\* nuevas_asignaciones when the user sets the selectbox of slot i to p
nuevas_asignaciones(edited, team, i, p) ==
    [k \in 1..team.race_config.duration |->
        IF k = i + 1 THEN p ELSE default_seleccion(edited, k - 1, team)]

\* nuevos_comentarios when the user sets the comment of slot i to c
nuevos_comentarios(team, i, c) ==
    [k \in 1..team.race_config.duration |->
        IF k = i + 1 THEN c ELSE team.horario[k].Comentarios]

----------------------------------------------------------------------------
(* "Resumen del Horario" and "Alertas de Limite" (lines 286-313) *)

\* the number of entries of asignaciones[k..] equal to piloto
RECURSIVE value_count(_, _, _)
value_count(asignaciones, piloto, k) ==
    IF k > Len(asignaciones) THEN 0
    ELSE (IF asignaciones[k] = piloto THEN 1 ELSE 0)
         + value_count(asignaciones, piloto, k + 1)

\* resumen_df: pd.Series(nuevas_asignaciones).value_counts().drop("Sin Asignar")
resumen_df(asignaciones) ==
    [piloto \in {asignaciones[k] : k \in 1..Len(asignaciones)} \ {SinAsignar} |->
        value_count(asignaciones, piloto, 1)]

\* an alert also when the count equals the limit
alertas_at_limit(counts, edited) ==
    {[piloto |-> p, limite |-> FirstRow(edited, p).HorasLimite, stints |-> counts[p]] :
        p \in {q \in DOMAIN counts :
                 /\ HasRow(edited, q)
                 /\ FirstRow(edited, q).HorasLimite > 0
                 /\ counts[q] >= FirstRow(edited, q).HorasLimite}}

\* the st.warning messages of the loop over resumen_df (lines 303-311)
alertas(counts, edited) ==
    {[piloto |-> p, limite |-> FirstRow(edited, p).HorasLimite, stints |-> counts[p]] :
        p \in {q \in DOMAIN counts :
                 /\ HasRow(edited, q)
                 /\ FirstRow(edited, q).HorasLimite > 0
                 /\ counts[q] > FirstRow(edited, q).HorasLimite}}

----------------------------------------------------------------------------
(* Initial state: an empty collection, no session has run the script *)

EmptyCollection(ops) ==
    /\ store = [found |-> FALSE, data |-> EmptyDoc]
    /\ loaded = [s \in Sessions |-> FALSE]
    /\ db = [s \in Sessions |-> EmptyDoc]
    /\ sel = [s \in Sessions |-> NoTeam]
    /\ pc = [s \in Sessions |-> "idle"]
    /\ fresh = [s \in Sessions |-> EmptyDoc]
    /\ pending = [s \in Sessions |-> EmptyDoc]
    /\ newly = [s \in Sessions |-> NoTeam]
    /\ error = [s \in Sessions |-> ""]
    /\ left = ops
    /\ lost = FALSE
    /\ resumen = [s \in Sessions |-> NoSummary]

Init == EmptyCollection(MaxOpsFromEmpty)

\* the session can start a handler
Ready(s) == loaded[s] /\ pc[s] = "idle"

\* lines 78-81: a selection that is not among team_names becomes None
ValidSelection(t, data) == IF t \in DOMAIN data THEN t ELSE NoTeam

\* the write of session s replaces, in the store, a slot that changed after s
\* loaded by the value s loaded
Clobbers(s) ==
    \E t \in (DOMAIN store.data) \cap (DOMAIN fresh[s]) \cap (DOMAIN pending[s]) :
        \E k \in 1..Min(Len(store.data[t].horario),
                        Min(Len(fresh[s][t].horario), Len(pending[s][t].horario))) :
            /\ store.data[t].horario[k] # fresh[s][t].horario[k]
            /\ pending[s][t].horario[k] = fresh[s][t].horario[k]

----------------------------------------------------------------------------
(* First run of the script in a session (lines 65-67, 78-81) *)

FirstLoad(s) ==
    /\ ~loaded[s]
    /\ loaded' = [loaded EXCEPT ![s] = TRUE]
    /\ db' = [db EXCEPT ![s] = load_data(store)]
    /\ store' = load_data_store(store)
    /\ sel' = [sel EXCEPT ![s] = NoTeam]
    /\ UNCHANGED <<resumen, pc, fresh, pending, newly, error, left, lost>>

(* The team selectbox (lines 87-93) *)
SelectTeam(s, t) ==
    /\ Ready(s)
    /\ t \in DOMAIN db[s]
    /\ t # sel[s]
    /\ sel' = [sel EXCEPT ![s] = t]
    /\ error' = [error EXCEPT ![s] = ""]
    /\ UNCHANGED <<resumen, store, loaded, db, pc, fresh, pending, newly, left, lost>>

----------------------------------------------------------------------------
(* "Crear Equipo" (lines 104-116) *)

CreateTeam(s, new_team_name, new_team_duration) ==
    /\ Ready(s)
    /\ left > 0
    /\ left' = left - 1
    /\ IF new_team_name # "" /\ new_team_name \notin DOMAIN db[s]
       THEN /\ db' = [db EXCEPT ![s] =
                        DictSet(@, new_team_name,
                                get_default_team_structure(new_team_duration))]
            /\ store' = save_data(store, db'[s])
            /\ pc' = [pc EXCEPT ![s] = "create_saved"]
            /\ newly' = [newly EXCEPT ![s] = new_team_name]
            /\ error' = [error EXCEPT ![s] = ""]
       ELSE /\ error' = [error EXCEPT ![s] = "create"]
            /\ UNCHANGED <<store, db, pc, newly>>
    /\ UNCHANGED <<resumen, loaded, sel, fresh, pending, lost>>

\* lines 112-114, then the rerun's lines 74-81
CreateTeamReload(s) ==
    /\ pc[s] = "create_saved"
    /\ db' = [db EXCEPT ![s] = load_data(store)]
    /\ store' = load_data_store(store)
    /\ sel' = [sel EXCEPT ![s] = ValidSelection(newly[s], db'[s])]
    /\ newly' = [newly EXCEPT ![s] = NoTeam]
    /\ pc' = [pc EXCEPT ![s] = "idle"]
    /\ UNCHANGED <<resumen, loaded, fresh, pending, error, left, lost>>

----------------------------------------------------------------------------
(* "Eliminar Equipo Seleccionado" (lines 118-128) *)

\* the handler without the test len(st.session_state.db) > 1
DeleteTeam_unguarded(s, team_to_delete) ==
    /\ Ready(s)
    /\ team_to_delete \in (DOMAIN db[s]) \cup {NoTeam}
    /\ left > 0
    /\ left' = left - 1
    /\ IF team_to_delete # NoTeam
       THEN /\ db' = [db EXCEPT ![s] = DictDel(@, team_to_delete)]
            /\ store' = save_data(store, db'[s])
            /\ pc' = [pc EXCEPT ![s] = "delete_saved"]
            /\ error' = [error EXCEPT ![s] = ""]
       ELSE /\ error' = [error EXCEPT ![s] = "delete"]
            /\ UNCHANGED <<store, db, pc>>
    /\ UNCHANGED <<resumen, loaded, sel, fresh, pending, newly, lost>>

DeleteTeam(s, team_to_delete) ==
    /\ Ready(s)
    /\ team_to_delete \in (DOMAIN db[s]) \cup {NoTeam}
    /\ left > 0
    /\ left' = left - 1
    /\ IF team_to_delete # NoTeam /\ Cardinality(DOMAIN db[s]) > 1
       THEN /\ db' = [db EXCEPT ![s] = DictDel(@, team_to_delete)]
            /\ store' = save_data(store, db'[s])
            /\ pc' = [pc EXCEPT ![s] = "delete_saved"]
            /\ error' = [error EXCEPT ![s] = ""]
       ELSE /\ error' = [error EXCEPT ![s] = "delete"]
            /\ UNCHANGED <<store, db, pc>>
    /\ UNCHANGED <<resumen, loaded, sel, fresh, pending, newly, lost>>

\* lines 124-126
DeleteTeamReload(s) ==
    /\ pc[s] = "delete_saved"
    /\ db' = [db EXCEPT ![s] = load_data(store)]
    /\ store' = load_data_store(store)
    /\ sel' = [sel EXCEPT ![s] = NoTeam]
    /\ pc' = [pc EXCEPT ![s] = "idle"]
    /\ UNCHANGED <<resumen, loaded, fresh, pending, newly, error, left, lost>>

----------------------------------------------------------------------------
(* The start-hour input (lines 156-176) *)

ChangeStartHour(s, hour) ==
    /\ Ready(s)
    /\ sel[s] # NoTeam
    /\ left > 0
    /\ hour # db[s][sel[s]].race_config.start_hour
    /\ left' = left - 1
    /\ db' = [db EXCEPT ![s][sel[s]].race_config.start_hour = hour]
    /\ store' = save_data(store, db'[s])
    /\ error' = [error EXCEPT ![s] = ""]
    /\ UNCHANGED <<resumen, loaded, sel, pc, fresh, pending, newly, lost>>

----------------------------------------------------------------------------
(* "Guardar Configuracion de Pilotos" (lines 189-229) *)

\* latest_db_data after lines 210-225
AvailabilityDoc(latest_db_data, team_name, df, duration) ==
    [latest_db_data EXCEPT
        ![team_name] = [@ EXCEPT !.pilots = df,
                                 !.horario = Reconcile(df, @, duration)]]

\* lines 205-225: load, reconcile, merge; an exception ends the run
SaveAvailability(s, edited) ==
    /\ Ready(s)
    /\ sel[s] # NoTeam
    /\ left > 0
    /\ left' = left - 1
    /\ store' = load_data_store(store)
    /\ LET team == db[s][sel[s]]
           duration == team.race_config.duration
           latest_db_data == load_data(store)
           df == df_to_save(edited, team)
       IN  IF \/ sel[s] \notin DOMAIN latest_db_data
              \/ ReconcileRaises(df, latest_db_data[sel[s]].horario, duration)
           THEN /\ error' = [error EXCEPT ![s] = "exception"]
                /\ UNCHANGED <<pc, fresh, pending>>
           ELSE /\ fresh' = [fresh EXCEPT ![s] = latest_db_data]
                /\ pending' = [pending EXCEPT ![s] =
                                 AvailabilityDoc(latest_db_data, sel[s], df, duration)]
                /\ pc' = [pc EXCEPT ![s] = "avail_loaded"]
                /\ error' = [error EXCEPT ![s] = ""]
    /\ UNCHANGED <<resumen, loaded, db, sel, newly, lost>>

\* lines 226-229
SaveAvailabilityWrite(s) ==
    /\ pc[s] = "avail_loaded"
    /\ store' = save_data(store, pending[s])
    /\ db' = [db EXCEPT ![s] = pending[s]]
    /\ sel' = [sel EXCEPT ![s] = ValidSelection(@, pending[s])]
    /\ lost' = (lost \/ Clobbers(s))
    /\ fresh' = [fresh EXCEPT ![s] = EmptyDoc]
    /\ pending' = [pending EXCEPT ![s] = EmptyDoc]
    /\ pc' = [pc EXCEPT ![s] = "idle"]
    /\ UNCHANGED <<resumen, loaded, newly, error, left>>

----------------------------------------------------------------------------
(* "Guardar Horario Asignado" (lines 241-284) *)

\* latest_db_data after lines 272-280
ScheduleDoc(latest_db_data, team_name, horario_df, asignaciones, comentarios, duration) ==
    [latest_db_data EXCEPT
        ![team_name].horario =
            MergeHorario(@, horario_df, asignaciones, comentarios, duration)]

\* a team missing from the loaded document is put back from the snapshot
SaveSchedule_recreates(s, edited, i, p, c) ==
    /\ Ready(s)
    /\ sel[s] # NoTeam
    /\ left > 0
    /\ left' = left - 1
    /\ store' = load_data_store(store)
    /\ LET team == db[s][sel[s]]
           duration == team.race_config.duration
           latest_db_data == IF sel[s] \in DOMAIN load_data(store) THEN load_data(store)
                             ELSE DictSet(load_data(store), sel[s], team)
           asignaciones == nuevas_asignaciones(edited, team, i, p)
           comentarios == nuevos_comentarios(team, i, c)
       IN  IF MergeRaises(latest_db_data[sel[s]].horario, team.horario,
                          asignaciones, comentarios, duration)
           THEN /\ error' = [error EXCEPT ![s] = "exception"]
                /\ UNCHANGED <<pc, fresh, pending>>
           ELSE /\ fresh' = [fresh EXCEPT ![s] = latest_db_data]
                /\ pending' = [pending EXCEPT ![s] =
                                 ScheduleDoc(latest_db_data, sel[s], team.horario,
                                             asignaciones, comentarios, duration)]
                /\ pc' = [pc EXCEPT ![s] = "sched_loaded"]
                /\ error' = [error EXCEPT ![s] = ""]
    /\ UNCHANGED <<resumen, loaded, db, sel, newly, lost>>

\* lines 270-280 with the table edited, slot i set to pilot p and comment c
SaveSchedule(s, edited, i, p, c) ==
    /\ Ready(s)
    /\ sel[s] # NoTeam
    /\ left > 0
    /\ left' = left - 1
    /\ store' = load_data_store(store)
    /\ LET team == db[s][sel[s]]
           duration == team.race_config.duration
           latest_db_data == load_data(store)
           asignaciones == nuevas_asignaciones(edited, team, i, p)
           comentarios == nuevos_comentarios(team, i, c)
       IN  IF \/ sel[s] \notin DOMAIN latest_db_data
              \/ MergeRaises(latest_db_data[sel[s]].horario, team.horario,
                             asignaciones, comentarios, duration)
           THEN /\ error' = [error EXCEPT ![s] = "exception"]
                /\ UNCHANGED <<pc, fresh, pending>>
           ELSE /\ fresh' = [fresh EXCEPT ![s] = latest_db_data]
                /\ pending' = [pending EXCEPT ![s] =
                                 ScheduleDoc(latest_db_data, sel[s], team.horario,
                                             asignaciones, comentarios, duration)]
                /\ pc' = [pc EXCEPT ![s] = "sched_loaded"]
                /\ error' = [error EXCEPT ![s] = ""]
    /\ UNCHANGED <<resumen, loaded, db, sel, newly, lost>>

\* lines 281-284
SaveScheduleWrite(s) ==
    /\ pc[s] = "sched_loaded"
    /\ store' = save_data(store, pending[s])
    /\ db' = [db EXCEPT ![s] = pending[s]]
    /\ sel' = [sel EXCEPT ![s] = ValidSelection(@, pending[s])]
    /\ lost' = (lost \/ Clobbers(s))
    /\ fresh' = [fresh EXCEPT ![s] = EmptyDoc]
    /\ pending' = [pending EXCEPT ![s] = EmptyDoc]
    /\ pc' = [pc EXCEPT ![s] = "idle"]
    /\ UNCHANGED <<resumen, loaded, newly, error, left>>

----------------------------------------------------------------------------
(* A run of the script in which no button is pressed: the user has edited   *)
(* the pilot table and the selectboxes, and the summary is displayed        *)

ShowSummary(s, edited, asignaciones) ==
    /\ Ready(s)
    /\ sel[s] \in DOMAIN db[s]
    /\ left > 0
    /\ left' = left - 1
    /\ resumen' = [resumen EXCEPT ![s] =
                      [asignaciones |-> asignaciones,
                       edited |-> edited,
                       counts |-> resumen_df(asignaciones),
                       alerts |-> alertas(resumen_df(asignaciones), edited)]]
    /\ UNCHANGED <<store, loaded, db, sel, pc, fresh, pending, newly, error, lost>>

----------------------------------------------------------------------------
(* The user's inputs *)

TeamNameInputs == NewTeamNames \cup {DefaultTeamName, ""}
DurationInputs == DurationChoices \cap AllowedDurations

\* the table the data editor of the selected team shows
Shown(s) == display_config_df(db[s][sel[s]])

\* the tables the data editor of the selected team can return
EditedTables(s) ==
    data_editor(Shown(s), db[s][sel[s]].race_config.start_hour,
                db[s][sel[s]].race_config.duration)

UserCreateTeam(s) ==
    \E n \in TeamNameInputs, d \in DurationInputs : CreateTeam(s, n, d)

UserDeleteTeam(s) ==
    \E t \in TeamNameInputs : DeleteTeam(s, t)

UserSelectTeam(s) ==
    \E t \in TeamNameInputs : SelectTeam(s, t)

UserChangeStartHour(s) ==
    \E h \in StartHourChoices : ChangeStartHour(s, h)

UserSaveAvailability(s) ==
    /\ Ready(s)
    /\ sel[s] # NoTeam
    /\ \E edited \in EditedTables(s) : SaveAvailability(s, edited)

\* the flag of the edited table that decides hour index i: one toggle of it
\* in one of the rows the user edits, or no edit
EditsForSlot(s, i) ==
    LET team == db[s][sel[s]]
        shown == Shown(s)
        rows == EditRows \cap (1..Len(shown))
        label == HourLabel(team.race_config.start_hour, i)
    IN  {shown} \cup
        (IF i = 0 THEN {[shown EXCEPT ![r].QuiereEmpezar = ~@] : r \in rows}
         ELSE IF i = team.race_config.duration - 1
         THEN {[shown EXCEPT ![r].QuiereTerminar = ~@] : r \in rows}
         ELSE {[shown EXCEPT ![r].Horas[label] = ~@] :
                  r \in {q \in rows : label \in DOMAIN shown[q].Horas}})

\* the user sets the pilot of one slot (after editing the table or not), or
\* the comment of one slot, and clicks the button
UserSaveSchedule(s) ==
    /\ Ready(s)
    /\ sel[s] # NoTeam
    /\ \E i \in UserSlots(db[s][sel[s]].race_config.duration) :
         \/ \E edited \in EditsForSlot(s, i) :
               \E p \in UserPicks(edited, i, db[s][sel[s]]) :
                  SaveSchedule(s, edited, i, p,
                               db[s][sel[s]].horario[i + 1].Comentarios)
         \/ \E c \in Comments :
               SaveSchedule(s, Shown(s), i,
                            default_seleccion(Shown(s), i, db[s][sel[s]]), c)

\* the pilot table with the limit of one row edited
SummaryTables(s) ==
    {Shown(s)} \cup {[Shown(s) EXCEPT ![r].HorasLimite = c] :
                        r \in EditRows \cap (1..Len(Shown(s))), c \in LimitChoices}

\* the selections on screen: any option in the slots the user works on, the
\* selectbox's default elsewhere
SummaryPicks(s, edited) ==
    LET team == db[s][sel[s]]
        d == team.race_config.duration
        names == {SinAsignar} \cup {edited[r].Piloto : r \in 1..Len(edited)}
        options == [i \in UserSlots(d) |->
                       lista_pilotos_filtrada(edited, i, team.race_config.start_hour, d)]
        defaults == [k \in 1..d |-> IF (k - 1) \in UserSlots(d) THEN SinAsignar
                                    ELSE default_seleccion(edited, k - 1, team)]
    IN  {[k \in 1..d |-> IF (k - 1) \in UserSlots(d) THEN g[k - 1] ELSE defaults[k]] :
            g \in {h \in [UserSlots(d) -> names] :
                      \A i \in UserSlots(d) : InList(options[i], h[i])}}

UserShowSummary(s) ==
    /\ Ready(s)
    /\ sel[s] \in DOMAIN db[s]
    /\ \E edited \in SummaryTables(s) :
          \E asignaciones \in SummaryPicks(s, edited) :
             ShowSummary(s, edited, asignaciones)

\* every handler that loads or writes; the display of the summary, which
\* writes nothing, is explored in SpecSummary
Next ==
    \E s \in Sessions :
        \/ FirstLoad(s)
        \/ UserSelectTeam(s)
        \/ UserCreateTeam(s)
        \/ CreateTeamReload(s)
        \/ UserDeleteTeam(s)
        \/ DeleteTeamReload(s)
        \/ UserChangeStartHour(s)
        \/ UserSaveAvailability(s)
        \/ SaveAvailabilityWrite(s)
        \/ UserSaveSchedule(s)
        \/ SaveScheduleWrite(s)

Spec == Init /\ [][Next]_vars

----------------------------------------------------------------------------
(* Two sessions at work on two short races.  The state is the one the app  *)
(* is in after: s1 opens the app, creates B (3 hours) and deletes the      *)
(* default team; s2 opens the app; s1 creates A (3 hours); s2, whose       *)
(* snapshot has no A, creates A (4 hours).  s1 still holds the snapshot of *)
(* its last reload, and both sessions have their new team selected.        *)

TwoTeams(ops) ==
    /\ store = [found |-> TRUE,
                data |-> ("A" :> get_default_team_structure(4))
                         @@ ("B" :> get_default_team_structure(3))]
    /\ loaded = [s \in Sessions |-> TRUE]
    /\ db = ("s1" :> (("A" :> get_default_team_structure(3))
                      @@ ("B" :> get_default_team_structure(3))))
            @@ ("s2" :> store.data)
    /\ sel = [s \in Sessions |-> "A"]
    /\ pc = [s \in Sessions |-> "idle"]
    /\ fresh = [s \in Sessions |-> EmptyDoc]
    /\ pending = [s \in Sessions |-> EmptyDoc]
    /\ newly = [s \in Sessions |-> NoTeam]
    /\ error = [s \in Sessions |-> ""]
    /\ left = ops
    /\ lost = FALSE
    /\ resumen = [s \in Sessions |-> NoSummary]

\* every handler, in any order
InitTwoTeams == TwoTeams(MaxMixedOps)

NextTwoTeams ==
    \E s \in Sessions :
        \/ UserSelectTeam(s)
        \/ UserCreateTeam(s)
        \/ CreateTeamReload(s)
        \/ UserDeleteTeam(s)
        \/ DeleteTeamReload(s)
        \/ UserChangeStartHour(s)
        \/ UserSaveAvailability(s)
        \/ SaveAvailabilityWrite(s)
        \/ UserSaveSchedule(s)
        \/ SaveScheduleWrite(s)

SpecTwoTeams == InitTwoTeams /\ [][NextTwoTeams]_vars

\* team management alone, from the empty collection
InitTeams == EmptyCollection(MaxTeamOps)

NextTeams ==
    \E s \in Sessions :
        \/ FirstLoad(s)
        \/ UserSelectTeam(s)
        \/ UserCreateTeam(s)
        \/ CreateTeamReload(s)
        \/ UserDeleteTeam(s)
        \/ DeleteTeamReload(s)
        \/ UserChangeStartHour(s)

SpecTeams == InitTeams /\ [][NextTeams]_vars

\* planning alone
InitPlanning == TwoTeams(MaxPlanOps)

NextPlanning ==
    \E s \in Sessions :
        \/ UserSaveAvailability(s)
        \/ SaveAvailabilityWrite(s)
        \/ UserSaveSchedule(s)
        \/ SaveScheduleWrite(s)

SpecPlanning == InitPlanning /\ [][NextPlanning]_vars

----------------------------------------------------------------------------
(* Saving the availability of a 3-hour team whose pilot table and schedule  *)
(* are arbitrary: schedule saves put any pilot in any slot (the options of  *)
(* a slot follow the edited table, saved or not), and availability saves    *)
(* set any flag and delete any row.                                         *)

TryPilots == {"Piloto 1", "Piloto 2"}

TrySchedules(duration) ==
    {[k \in 1..duration |-> [PilotoAlVolante |-> f[k], Comentarios |-> ""]] :
        f \in [1..duration -> {SinAsignar} \cup TryPilots]}

TryTables(duration) ==
    LET base == get_default_team_structure(duration).pilots
    IN  {[base EXCEPT ![1].QuiereEmpezar = a, ![1].QuiereTerminar = b,
                      ![1].Horas[1] = c] : a, b, c \in BOOLEAN}
        \cup {RemoveRow(base, 1)}

InitReconcile ==
    /\ \E horario \in TrySchedules(3), tbl \in TryTables(3) :
          store = [found |-> TRUE,
                   data |-> ("A" :> [get_default_team_structure(3) EXCEPT
                                        !.pilots = tbl, !.horario = horario])]
    /\ loaded = [s \in Sessions |-> TRUE]
    /\ db = [s \in Sessions |-> store.data]
    /\ sel = [s \in Sessions |-> "A"]
    /\ pc = [s \in Sessions |-> "idle"]
    /\ fresh = [s \in Sessions |-> EmptyDoc]
    /\ pending = [s \in Sessions |-> EmptyDoc]
    /\ newly = [s \in Sessions |-> NoTeam]
    /\ error = [s \in Sessions |-> ""]
    /\ left = MaxReconcileOps
    /\ lost = FALSE
    /\ resumen = [s \in Sessions |-> NoSummary]

NextReconcile ==
    \E s \in Sessions :
        \/ UserSaveAvailability(s)
        \/ SaveAvailabilityWrite(s)

SpecReconcile == InitReconcile /\ [][NextReconcile]_vars

----------------------------------------------------------------------------
(* Creating teams of every allowed duration, from the empty collection *)

UserCreateAnyTeam(s) ==
    \E n \in NewTeamNames, d \in AllowedDurations : CreateTeam(s, n, d)

InitFactory == EmptyCollection(MaxFactoryOps)

NextFactory ==
    \E s \in Sessions :
        \/ FirstLoad(s)
        \/ UserCreateAnyTeam(s)
        \/ CreateTeamReload(s)

SpecFactory == InitFactory /\ [][NextFactory]_vars

----------------------------------------------------------------------------
(* Displaying the summary of a team while its schedule is being planned:   *)
(* the selections and the limits on screen change, nothing is saved        *)

InitSummary == TwoTeams(MaxSummaryOps)

NextSummary == \E s \in Sessions : UserShowSummary(s)

SpecSummary == InitSummary /\ [][NextSummary]_vars

----------------------------------------------------------------------------
(* Saving after another session deleted a team *)

InitDeletedTeam == TwoTeams(MaxDeletedTeamOps)

NextDeletedTeam ==
    \E s \in Sessions :
        \/ UserDeleteTeam(s)
        \/ DeleteTeamReload(s)
        \/ UserSaveAvailability(s)
        \/ SaveAvailabilityWrite(s)
        \/ UserSaveSchedule(s)
        \/ SaveScheduleWrite(s)

SpecDeletedTeam == InitDeletedTeam /\ [][NextDeletedTeam]_vars

----------------------------------------------------------------------------
(* Saving the schedule of a 3-hour team whose pilot table and schedule are  *)
(* arbitrary                                                                 *)

NextAssign ==
    \E s \in Sessions :
        \/ UserSaveSchedule(s)
        \/ SaveScheduleWrite(s)

SpecAssign == InitReconcile /\ [][NextAssign]_vars

----------------------------------------------------------------------------
(* Claims *)

\* effective availability of the pilot called name at hour index h: Quiere
\* Empezar at the first index, Quiere Terminar at the last, the hourly flag
\* otherwise
EffectiveAvailability(tbl, name, h, duration) ==
    LET row == FirstRow(tbl, name)
    IN  CASE h = 0 -> row.QuiereEmpezar
          [] h # 0 /\ h = duration - 1 -> row.QuiereTerminar
          [] OTHER -> h \in DOMAIN row.Horas /\ row.Horas[h]

\* session s is about to write the availability it saved
AvailabilityLoaded(s) == pc[s] = "avail_loaded"

\* the write step of save-availability by session s
AvailabilityWritten(s) == pc[s] = "avail_loaded" /\ pc'[s] = "idle"

\* C1: save-availability reconciles the schedule it loaded against the pilot
\* table it saves: a slot whose pilot P has a row in that table is stored as
\* "Sin Asignar" if P's effective availability at that hour index is false
\* and keeps P if it is true.
C1_SaveAvailabilityReconciles ==
    [][\A s \in Sessions :
          AvailabilityWritten(s) =>
             LET t == sel[s]
                 d == db[s][t].race_config.duration
                 df == store'.data[t].pilots
             IN  \A h \in 0..(d - 1) :
                    LET P == fresh[s][t].horario[h + 1].PilotoAlVolante
                    IN  (P # SinAsignar /\ HasRow(df, P)) =>
                           store'.data[t].horario[h + 1].PilotoAlVolante =
                              IF EffectiveAvailability(df, P, h, d)
                              THEN P ELSE SinAsignar]_vars

\* a save-availability that clears one slot and keeps another
C1_Witness ==
    \E s \in Sessions :
        /\ AvailabilityLoaded(s)
        /\ LET t == sel[s]
               df == pending[s][t].pilots
               was(h) == fresh[s][t].horario[h + 1].PilotoAlVolante
               now(h) == pending[s][t].horario[h + 1].PilotoAlVolante
               hs == 0..(db[s][t].race_config.duration - 1)
           IN  /\ \E h \in hs : was(h) # SinAsignar /\ HasRow(df, was(h))
                                /\ now(h) = SinAsignar
               /\ \E h \in hs : was(h) # SinAsignar /\ HasRow(df, was(h))
                                /\ now(h) = was(h)

C9_ReconcileIdempotent ==
    \A s \in Sessions :
        AvailabilityLoaded(s) =>
           LET t == sel[s]
               d == db[s][t].race_config.duration
           IN  Reconcile(pending[s][t].pilots, pending[s][t].horario, d)
                  = pending[s][t].horario

\* a save-availability whose reconcile loop cleared a slot
C9_Witness ==
    \E s \in Sessions :
        /\ AvailabilityLoaded(s)
        /\ pending[s][sel[s]].horario # fresh[s][sel[s]].horario

\* C3 as stated: every assigned slot of the stored schedule is consistent
\* with the availability of its pilot in the same stored document.
C3_StoredScheduleConsistent ==
    store.found =>
       \A t \in DOMAIN store.data :
          LET team == store.data[t]
          IN  \A k \in 1..Len(team.horario) :
                 LET P == team.horario[k].PilotoAlVolante
                 IN  P # SinAsignar =>
                        /\ HasRow(team.pilots, P)
                        /\ EffectiveAvailability(team.pilots, P, k - 1,
                                                 team.race_config.duration)

\* the teams whose entry differs between two documents
ChangedTeams(before, after) ==
    {t \in (DOMAIN before) \cup (DOMAIN after) :
        \/ t \notin DOMAIN before
        \/ t \notin DOMAIN after
        \/ before[t] # after[t]}

\* C4 as stated: the document a write operation stores is the store's
\* current document with only that operation's change applied.
C4_WritesMergeIntoStore ==
    [][\A s \in Sessions :
          /\ (pc[s] = "idle" /\ pc'[s] = "create_saved") =>
                store'.data = DictSet(store.data, newly'[s], db'[s][newly'[s]])
          /\ (pc[s] = "idle" /\ pc'[s] = "delete_saved") =>
                \E t \in (DOMAIN db[s]) \ (DOMAIN db'[s]) :
                   store'.data = DictDel(store.data, t)
          /\ (loaded[s] /\ pc[s] = "idle" /\ pc'[s] = "idle" /\ db'[s] # db[s]) =>
                /\ sel[s] \in DOMAIN store.data
                /\ store'.data =
                      [store.data EXCEPT ![sel[s]].race_config.start_hour =
                                            db'[s][sel[s]].race_config.start_hour]
          /\ (pc[s] \in {"avail_loaded", "sched_loaded"} /\ pc'[s] = "idle") =>
                /\ ChangedTeams(store.data, store'.data) \subseteq {sel[s]}
                /\ store'.data[sel[s]].race_config = store.data[sel[s]].race_config
                /\ \A k \in 1..Len(store.data[sel[s]].horario) :
                      pending[s][sel[s]].horario[k] = fresh[s][sel[s]].horario[k]
                         => store'.data[sel[s]].horario[k]
                               = store.data[sel[s]].horario[k]]_vars

\* C5 as stated: a delete request that names the only team of the store is
\* rejected with the error and leaves the store unchanged.
C5_LastTeamNotDeleted ==
    [][\A s \in Sessions, t \in TeamNameInputs :
          (store.found /\ DOMAIN store.data = {t} /\ DeleteTeam(s, t)) =>
             (store' = store /\ error'[s] = "delete")]_vars

\* C6 as stated: a create request whose name is empty or names a team of the
\* store is rejected with the error and changes nothing in the store.
C6_DuplicateNameRejected ==
    [][\A s \in Sessions, n \in TeamNameInputs, d \in DurationInputs :
          (store.found /\ (n = "" \/ n \in DOMAIN store.data) /\ CreateTeam(s, n, d)) =>
             (store' = store /\ error'[s] = "create")]_vars

\* every stored schedule has as many entries as the team's duration
ScheduleLengths ==
    store.found =>
       \A t \in DOMAIN store.data :
          Len(store.data[t].horario) = store.data[t].race_config.duration

\* C7: in every stored document every team's schedule has exactly
\* race_config.duration entries, and the schedule a save is about to write
\* has the entries of the schedule it loaded: none added, none removed.
C7_ScheduleLength ==
    /\ ScheduleLengths
    /\ \A s \in Sessions :
          pc[s] \in {"avail_loaded", "sched_loaded"} =>
             DOMAIN pending[s][sel[s]].horario = DOMAIN fresh[s][sel[s]].horario

\* a save of a session whose snapshot has another duration than the store
C7_Witness ==
    \E s \in Sessions :
        /\ pc[s] \in {"avail_loaded", "sched_loaded"}
        /\ db[s][sel[s]].race_config.duration
              # fresh[s][sel[s]].race_config.duration
        /\ pending[s][sel[s]].horario # fresh[s][sel[s]].horario

\* session s creates a team called t in this step
CreatesTeam(s, t) ==
    pc[s] = "idle" /\ pc'[s] = "create_saved" /\ newly'[s] = t

\* C8 as stated: the duration stored under a team name does not change while
\* the team stays in the store, in any step that does not create a team of
\* that name.
C8_DurationFixed ==
    [][store.found =>
          \A t \in (DOMAIN store.data) \cap (DOMAIN store'.data) :
             (\A s \in Sessions : ~CreatesTeam(s, t)) =>
                store'.data[t].race_config.duration
                   = store.data[t].race_config.duration]_vars

\* C10: a save replaces the stored document by the document it loaded with
\* its own changes merged in, whatever the store holds by then: every slot of
\* the selected team that the saving session did not change gets the value
\* that session loaded, so a change another session stored in between is gone.
C10_LastWriteWins ==
    [][\A s \in Sessions :
          (pc[s] \in {"avail_loaded", "sched_loaded"} /\ pc'[s] = "idle") =>
             /\ store'.data = pending[s]
             /\ \A k \in 1..Len(fresh[s][sel[s]].horario) :
                   pending[s][sel[s]].horario[k] = fresh[s][sel[s]].horario[k]
                      => store'.data[sel[s]].horario[k]
                            = fresh[s][sel[s]].horario[k]]_vars

\* both sessions loaded, both wrote, and the change the first writer stored
\* is gone from the store
C10_Witness ==
    /\ lost
    /\ \A s \in Sessions : pc[s] = "idle"


\* what C11 says of a team the factory returns for duration d
FactoryShape(team, d) ==
    /\ team.race_config = [start_hour |-> 14, duration |-> d]
    /\ Len(team.pilots) = 4
    /\ \A a, b \in 1..4 : a # b => team.pilots[a].Piloto # team.pilots[b].Piloto
    /\ \A r \in 1..4 :
          /\ DOMAIN team.pilots[r].Horas = 0..(d - 1)
          /\ \A h \in 0..(d - 1) : team.pilots[r].Horas[h] = TRUE
          /\ team.pilots[r].HorasLimite = 0
    /\ Cardinality({r \in 1..4 : team.pilots[r].QuiereEmpezar}) = 1
    /\ Cardinality({r \in 1..4 : team.pilots[r].QuiereTerminar}) = 1
    /\ Len(team.horario) = d
    /\ \A k \in 1..d :
          team.horario[k] = [PilotoAlVolante |-> SinAsignar, Comentarios |-> ""]

\* C11: the team that an accepted create request with duration d adds, for
\* every allowed d, and the default team the first load inserts (d = 24),
\* have start hour 14, duration d, four pilots with distinct names, all
\* hourly flags 0..d-1 true, one starter, one finisher, every cap 0, and a
\* schedule of d entries "Sin Asignar" with an empty comment.
C11_FactoryShape ==
    [][\A s \in Sessions :
          /\ \A n \in NewTeamNames, d \in AllowedDurations :
                (CreateTeam(s, n, d) /\ pc'[s] = "create_saved") =>
                   FactoryShape(db'[s][n], d)
          /\ (FirstLoad(s) /\ ~store.found) =>
                /\ DOMAIN store'.data = {DefaultTeamName}
                /\ FactoryShape(store'.data[DefaultTeamName], 24)]_vars

\* a 10-hour team was just created next to the 24-hour default team
C11_Witness ==
    \E s \in Sessions :
        /\ pc[s] = "create_saved"
        /\ store.data[newly[s]].race_config.duration = 10
        /\ DefaultTeamName \in DOMAIN store.data
        /\ store.data[DefaultTeamName].race_config.duration = 24

\* effective availability of a row of the pilot table at hour index h
RowAvailability(row, h, duration) ==
    CASE h = 0 -> row.QuiereEmpezar
      [] h # 0 /\ h = duration - 1 -> row.QuiereTerminar
      [] OTHER -> h \in DOMAIN row.Horas /\ row.Horas[h]

\* session s shows the tables of its selected team
ShowsTeam(s) == Ready(s) /\ sel[s] \in DOMAIN db[s]

\* C12: whatever the user edits in the pilot table, the options of the slot of
\* hour index h are "Sin Asignar" followed by the names of exactly the rows
\* whose effective availability at h is true, in table order (Quiere Empezar
\* at h = 0, Quiere Terminar at h = duration - 1, the flag of hour h
\* otherwise), and the reconcile loop reads the same flag of a row.
C12_OffersFollowAvailability ==
    \A s \in Sessions :
        ShowsTeam(s) =>
           LET team == db[s][sel[s]]
               d == team.race_config.duration
           IN  \A edited \in EditedTables(s), h \in 0..(d - 1) :
                  LET df == df_to_save(edited, team)
                      idx == {r \in 1..Len(df) : RowAvailability(df[r], h, d)}
                      nth(k) == CHOOSE r \in idx : Cardinality({q \in idx : q <= r}) = k
                      offered == lista_pilotos_filtrada(edited, h,
                                    team.race_config.start_hour, d)
                  IN  /\ Len(offered) = 1 + Cardinality(idx)
                      /\ offered[1] = SinAsignar
                      /\ \A k \in 1..Cardinality(idx) :
                            offered[k + 1] = df[nth(k)].Piloto
                      /\ \A r \in 1..Len(df) :
                            (h \in {0, d - 1} \/ h \in DOMAIN df[r].Horas) =>
                               disponible(df[r], h, d) = RowAvailability(df[r], h, d)

\* a race that starts at 23:00, so that the label of hour index 1 wraps to
\* 00:00, with one pilot unticked at that hour and the others offered
C12_Witness ==
    \E s \in Sessions :
        /\ ShowsTeam(s)
        /\ db[s][sel[s]].race_config.start_hour = 23
        /\ \E edited \in EditedTables(s) :
              LET team == db[s][sel[s]]
                  offered == lista_pilotos_filtrada(edited, 1, 23,
                                                    team.race_config.duration)
              IN  /\ Len(edited) = 4
                  /\ Len(offered) = 4
                  /\ ~InList(offered, edited[1].Piloto)

\* C13: the summary a run displays counts, for each name other than "Sin
\* Asignar", the slots whose selection is that name, and shows an alert for a
\* pilot exactly when the pilot's limit is greater than 0 and the count is
\* strictly greater than the limit; displaying it changes neither the store
\* nor any session's snapshot.
C13_SummaryCountsAndAlerts ==
    [][\A s \in Sessions :
          resumen'[s] # resumen[s] =>
             LET asignaciones == resumen'[s].asignaciones
                 edited == resumen'[s].edited
                 slots == 1..Len(asignaciones)
                 count(p) == Cardinality({k \in slots : asignaciones[k] = p})
                 named == {asignaciones[k] : k \in slots} \ {SinAsignar}
                 pilots == {edited[r].Piloto : r \in 1..Len(edited)}
                 limit(p) == FirstRow(edited, p).HorasLimite
                 alerted == {a.piloto : a \in resumen'[s].alerts}
             IN  /\ DOMAIN resumen'[s].counts = named
                 /\ \A p \in named : resumen'[s].counts[p] = count(p)
                 /\ alerted = {p \in pilots : limit(p) > 0 /\ count(p) > limit(p)}
                 /\ \A a \in resumen'[s].alerts :
                       a.limite = limit(a.piloto) /\ a.stints = count(a.piloto)
                 /\ store' = store
                 /\ db' = db]_vars

\* a summary with an alert for a pilot who drives 2 stints with a limit of 1,
\* next to a pilot who is counted without an alert
C13_Witness ==
    \E s \in Sessions :
        /\ \E a \in resumen[s].alerts : a.limite = 1 /\ a.stints = 2
        /\ \E p \in DOMAIN resumen[s].counts :
              \A a \in resumen[s].alerts : a.piloto # p
        /\ \E r \in 1..Len(resumen[s].edited) :
              /\ resumen[s].edited[r].HorasLimite = 1
              /\ resumen[s].edited[r].Piloto \in DOMAIN resumen[s].counts
              /\ resumen[s].counts[resumen[s].edited[r].Piloto] = 2

\* the write step of save-schedule by session s
ScheduleWritten(s) == pc[s] = "sched_loaded" /\ pc'[s] = "idle"

\* C14: save-schedule stores the document it loaded with, in each slot of the
\* selected team, the loaded pilot (comment) unless the session's selection
\* differs from the pilot (comment) the session displays; a slot stored with
\* another value than the loaded one is a slot the session changed on screen.
\* Nothing else of the loaded document is changed.
C14_SaveScheduleMergesPerSlot ==
    [][\A s \in Sessions :
          ScheduleWritten(s) =>
             LET t == sel[s]
                 shown == db[s][t].horario
                 loaded_h == fresh[s][t].horario
                 stored == store'.data[t].horario
             IN  /\ DOMAIN stored = DOMAIN loaded_h
                 /\ \A k \in DOMAIN stored :
                       /\ stored[k].PilotoAlVolante # loaded_h[k].PilotoAlVolante =>
                             /\ k \in DOMAIN shown
                             /\ stored[k].PilotoAlVolante # shown[k].PilotoAlVolante
                       /\ stored[k].Comentarios # loaded_h[k].Comentarios =>
                             /\ k \in DOMAIN shown
                             /\ stored[k].Comentarios # shown[k].Comentarios
                 /\ store'.data[t].pilots = fresh[s][t].pilots
                 /\ store'.data[t].race_config = fresh[s][t].race_config
                 /\ DOMAIN store'.data = DOMAIN fresh[s]
                 /\ \A u \in DOMAIN fresh[s] : u # t => store'.data[u] = fresh[s][u]]_vars

\* session B, still showing the schedule from before A's save, has loaded the
\* document with A's pilot in slot i and merged its own pilot into slot j
C14_Witness ==
    \E s \in Sessions :
        /\ pc[s] = "sched_loaded"
        /\ store.data = fresh[s]
        /\ LET t == sel[s]
               shown == db[s][t].horario
           IN  \E i, j \in DOMAIN shown :
                  /\ i # j
                  /\ fresh[s][t].horario[i].PilotoAlVolante # shown[i].PilotoAlVolante
                  /\ pending[s][t].horario[i] = fresh[s][t].horario[i]
                  /\ pending[s][t].horario[j].PilotoAlVolante
                        # fresh[s][t].horario[j].PilotoAlVolante

\* C15: save-availability stores the document it loaded with only the pilot
\* table of the selected team replaced and the pilot of the slots it
\* reconciles set to "Sin Asignar": every comment, the pilot of every slot
\* that is unassigned or still valid, the team's race_config and the other
\* teams are stored as loaded.
C15_SaveAvailabilityFrame ==
    [][\A s \in Sessions :
          AvailabilityWritten(s) =>
             LET t == sel[s]
                 d == db[s][t].race_config.duration
                 df == store'.data[t].pilots
                 loaded_h == fresh[s][t].horario
                 stored == store'.data[t].horario
             IN  /\ DOMAIN store'.data = DOMAIN fresh[s]
                 /\ \A u \in DOMAIN fresh[s] : u # t => store'.data[u] = fresh[s][u]
                 /\ store'.data[t].race_config = fresh[s][t].race_config
                 /\ DOMAIN stored = DOMAIN loaded_h
                 /\ \A k \in DOMAIN stored :
                       LET P == loaded_h[k].PilotoAlVolante
                       IN  /\ stored[k].Comentarios = loaded_h[k].Comentarios
                           /\ stored[k].PilotoAlVolante \in {P, SinAsignar}
                           /\ (\/ P = SinAsignar
                               \/ k > d
                               \/ /\ HasRow(df, P)
                                  /\ EffectiveAvailability(df, P, k - 1, d)) =>
                                 stored[k].PilotoAlVolante = P]_vars

\* a save-availability of an edited table that clears the slot of a pilot who
\* is no longer available, in a document that has another team
C15_Witness ==
    \E s \in Sessions :
        /\ AvailabilityLoaded(s)
        /\ DOMAIN fresh[s] # {sel[s]}
        /\ LET loaded_h == fresh[s][sel[s]].horario
               kept == pending[s][sel[s]].horario
           IN  /\ \E k \in DOMAIN loaded_h :
                     /\ loaded_h[k].PilotoAlVolante # SinAsignar
                     /\ kept[k].PilotoAlVolante = SinAsignar
               /\ pending[s][sel[s]].pilots # fresh[s][sel[s]].pilots

TeamGone(s) ==
    /\ Ready(s)
    /\ sel[s] \in DOMAIN db[s]
    /\ store.found
    /\ sel[s] \notin DOMAIN store.data

\* the handler of session s ended with an exception and wrote nothing
SaveFailed(s) ==
    /\ store' = store
    /\ db' = db
    /\ pc'[s] = "idle"
    /\ error'[s] = "exception"

\* C17: when the team a session has selected is no longer in the store, a
\* save-availability or save-schedule of that session fails before any write:
\* the store is left as it was and the team is not created again.
C17_SaveOnDeletedTeamFails ==
    [][\A s \in Sessions :
          TeamGone(s) =>
             /\ pc'[s] \notin {"avail_loaded", "sched_loaded"}
             /\ \A edited \in EditedTables(s) :
                   SaveAvailability(s, edited) => SaveFailed(s)
             /\ \A i \in UserSlots(db[s][sel[s]].race_config.duration) :
                   \A edited \in EditsForSlot(s, i) :
                      \A p \in UserPicks(edited, i, db[s][sel[s]]), c \in Comments :
                         SaveSchedule(s, edited, i, p, c) => SaveFailed(s)]_vars

\* a session's save has ended with an exception: its selected team, still in
\* its snapshot, is not in the store
C17_Witness ==
    \E s \in Sessions :
        /\ TeamGone(s)
        /\ error[s] = "exception"
        /\ sel[s] \notin DOMAIN store.data
        /\ DOMAIN store.data # {}

\* C18: in the document a save-schedule is about to write, every slot the
\* session changed, and every slot whose loaded pilot is the one the session
\* displays, holds "Sin Asignar" or a pilot who is eligible at that hour
\* index in the pilot table on the session's screen; and a slot whose
\* displayed pilot is not eligible in that table, the user not having picked
\* a pilot for it, is shown as "Sin Asignar" and holds "Sin Asignar".
C18_SavedPilotsAreOffered ==
    [][\A s \in Sessions :
          (pc[s] = "idle" /\ pc'[s] = "sched_loaded") =>
             LET team == db[s][sel[s]]
                 d == team.race_config.duration
             IN  \A i \in UserSlots(d) :
                    \A edited \in EditsForSlot(s, i) :
                       \A p \in UserPicks(edited, i, team)
                                   \cup {default_seleccion(edited, i, team)},
                          c \in Comments :
                          SaveSchedule(s, edited, i, p, c) =>
                             LET df == df_to_save(edited, team)
                                 eligible(n, h) ==
                                    \E r \in 1..Len(df) :
                                       df[r].Piloto = n /\ RowAvailability(df[r], h, d)
                                 new(k) == pending'[s][sel[s]].horario[k].PilotoAlVolante
                                 old(k) == fresh'[s][sel[s]].horario[k].PilotoAlVolante
                                 shown(k) == team.horario[k].PilotoAlVolante
                             IN  \A k \in 1..d :
                                    /\ (new(k) # old(k) \/ old(k) = shown(k)) =>
                                          (new(k) = SinAsignar \/ eligible(new(k), k - 1))
                                    /\ (/\ shown(k) # SinAsignar
                                        /\ ~eligible(shown(k), k - 1)
                                        /\ (k # i + 1 \/ p = SinAsignar)) =>
                                          /\ default_seleccion(edited, k - 1, team) = SinAsignar
                                          /\ new(k) = SinAsignar]_vars

\* a save-schedule is about to write "Sin Asignar" over a displayed pilot who
\* is not eligible, and a pilot the user picked into another slot
C18_Witness ==
    \E s \in Sessions :
        /\ pc[s] = "sched_loaded"
        /\ LET shown == db[s][sel[s]].horario
               old == fresh[s][sel[s]].horario
               new == pending[s][sel[s]].horario
           IN  \E k, j \in DOMAIN shown :
                  /\ k # j
                  /\ shown[k].PilotoAlVolante # SinAsignar
                  /\ old[k] = shown[k]
                  /\ new[k].PilotoAlVolante = SinAsignar
                  /\ new[j].PilotoAlVolante # old[j].PilotoAlVolante
                  /\ new[j].PilotoAlVolante # SinAsignar
====
